---- MODULE Spec2Model ----
(***************************************************************************)
(* napy.root: bisect, false_position, fixed_point, newton and secant.      *)
(*                                                                         *)
(* Python floats are modelled as exact rationals <<n, d>> (d > 0, lowest   *)
(* terms), the arithmetic the properties are stated in.  A caller-supplied *)
(* callable is a function handle; Apply evaluates it.  One behaviour is    *)
(* one call from a caller, optionally followed by one more call that the   *)
(* caller makes with arguments derived from the first one.                 *)
(***************************************************************************)
EXTENDS Integers, Sequences, FiniteSets

\* ------------------------------------------------------------------ bounds
\* max_iteration is drawn from 0..MaxIteration.
MaxIteration == 3
\* The callables are step functions over the cells 0..GridMax; the seeds and
\* endpoints are the integers 0..GridMax+1.
GridMax == 2

\* ------------------------------------------------- exact real arithmetic
RECURSIVE GCD(_, _)
GCD(x, y) == IF y = 0 THEN x ELSE GCD(y, x % y)

AbsInt(x) == IF x < 0 THEN -x ELSE x

\* The rational n/d in lowest terms with a positive denominator (d # 0).
Rat(n, d) ==
    LET g == GCD(AbsInt(n), AbsInt(d))
        s == IF d < 0 THEN -1 ELSE 1
    IN  << (s * n) \div g, (s * d) \div g >>

Zero == << 0, 1 >>
Two == << 2, 1 >>

Add(x, y) == Rat(x[1] * y[2] + y[1] * x[2], x[2] * y[2])
Sub(x, y) == Rat(x[1] * y[2] - y[1] * x[2], x[2] * y[2])
Mul(x, y) == Rat(x[1] * y[1], x[2] * y[2])
\* x / y for y # 0; the callers test y = 0 first (ZeroDivisionError).
Div(x, y) == Rat(x[1] * y[2], x[2] * y[1])
Less(x, y) == x[1] * y[2] < y[1] * x[2]
LessEq(x, y) == x[1] * y[2] <= y[1] * x[2]
Abs(x) == << AbsInt(x[1]), x[2] >>
Floor(x) == x[1] \div x[2]

\* A local that no assignment has bound yet.
Unbound == << >>

\* ------------------------------------------------------------- callables
Values == {-1, 0, 1}
Cells == 0 .. GridMax
\* f(x) = tbl[clamp(floor(x))]: an arbitrary pure, total real -> real callable
\* that is constant on each unit cell.
StepFns == { [kind |-> "step", tbl |-> t] : t \in [Cells -> Values] }

Clamp(k) == IF k < 0 THEN 0 ELSE IF k > GridMax THEN GridMax ELSE k

StepValue(fn, x) == << fn.tbl[Clamp(Floor(x))], 1 >>

RECURSIVE Apply(_, _)
RECURSIVE Raises(_, _)

\* p - f(p) / f'(p), the map of the specification of Newton's method.
NewtonMapOfSpec(fn, p) == Sub(p, Div(Apply(fn.f, p), Apply(fn.f_prime, p)))

\* A variant of the lambda that steps the wrong way.
newton_lambda_plus(fn, p) == Add(p, Div(Apply(fn.f, p), Apply(fn.f_prime, p)))

\* lambda p: p - f(p) / f_prime(p)
newton_lambda(fn, p) == Sub(p, Div(Apply(fn.f, p), Apply(fn.f_prime, p)))

\* Whether evaluating the callable at x raises ZeroDivisionError.
Raises(fn, x) ==
    IF fn.kind = "step" THEN FALSE
    ELSE \/ Raises(fn.f, x)
         \/ Raises(fn.f_prime, x)
         \/ Apply(fn.f_prime, x) = Zero

\* The value of the callable at x (where it does not raise).
Apply(fn, x) ==
    IF fn.kind = "step" THEN StepValue(fn, x)
    ELSE IF fn.kind = "lambda" THEN newton_lambda(fn, x)
    ELSE NewtonMapOfSpec(fn, x)

\* ---------------------------------------------------------------- outcomes
NoOutcome == [kind |-> "none", msg |-> "", value |-> Unbound, f_value |-> Unbound]

Return(x) == [kind |-> "return", msg |-> "", value |-> x, f_value |-> Unbound]

Raise(k, m) == [kind |-> k, msg |-> m, value |-> Unbound, f_value |-> Unbound]

MalformedInterval == Raise("ValueError", "Received malformed interval")

NoOppositeSigns ==
    Raise("ValueError", "Expected f to have have opposite signs at endpoints.")

\* A zero denominator reported as a failure to converge.
ZeroDivisionAsNonConvergence ==
    [kind |-> "ConvergenceFailure",
     msg |-> "Failed to converge with given max iteration count and tolerance.",
     value |-> Unbound, f_value |-> Unbound]

\* What Python's / raises on a zero divisor.
ZeroDivision == Raise("ZeroDivisionError", "division by zero")

UnboundLocal == Raise("UnboundLocalError", "local variable referenced before assignment")

\* ConvergenceFailure(... Final estimate: point_n={x}, f(point_n)={fx}.)
ConvergenceFailure(x, fx) ==
    [kind |-> "ConvergenceFailure",
     msg |-> "Failed to converge with given max iteration count and tolerance.",
     value |-> x, f_value |-> fx]

\* What the raise statement after the loop does: its message evaluates the
\* last estimate and the callable there.
RaiseAfterLoop(fn, x) ==
    IF x = Unbound THEN UnboundLocal
    ELSE IF Raises(fn, x) THEN ZeroDivision
    ELSE ConvergenceFailure(x, Apply(fn, x))

\* -------------------------------------------------------------------- state
VARIABLES
    call,            \* the caller's call: function name and arguments
    run,             \* "first", or what the caller's second call is
    prev,            \* the first call's summary, kept by the caller
    fn,              \* the parameter f of the executing function
    left_endpoint, right_endpoint, mid_point,
    point_0, point_1, point_n,
    i,               \* loop iterations completed without returning
    trace,           \* the estimates computed so far, in order
    pc,              \* "call", "loop", "done"
    outcome

vars == << call, run, prev, fn, left_endpoint, right_endpoint, mid_point,
           point_0, point_1, point_n, i, trace, pc, outcome >>

Seeds == { << k, 1 >> : k \in 0 .. GridMax + 1 }
Tolerances == { << 0, 1 >>, << 1, 4 >>, << 2, 1 >> }
Iterations == 0 .. MaxIteration

NoFn == [kind |-> "none"]

Call(a, f, fp, x0, x1, m, t) ==
    [alg |-> a, f |-> f, f_prime |-> fp, arg_0 |-> x0, arg_1 |-> x1,
     max_iteration |-> m, tolerance |-> t]

\* The calls a caller makes: every function, on every callable, seed pair,
\* iteration budget and tolerance of the bounded sets.
IsCall(c) ==
    \/ \E a \in {"bisect", "false_position", "secant"}, f \in StepFns,
          x0 \in Seeds, x1 \in Seeds, m \in Iterations, t \in Tolerances :
            c = Call(a, f, NoFn, x0, x1, m, t)
    \/ \E f \in StepFns, x0 \in Seeds, m \in Iterations, t \in Tolerances :
            c = Call("fixed_point", f, NoFn, x0, Unbound, m, t)
    \/ \E f \in StepFns, fp \in StepFns, x0 \in Seeds,
          m \in Iterations, t \in Tolerances :
            c = Call("newton", f, fp, x0, Unbound, m, t)

NoPrev ==
    [alg |-> "none", outcome |-> NoOutcome, trace |-> << >>, i |-> 0,
     step |-> Unbound]

Entered ==
    /\ pc = "call"
    /\ fn = NoFn
    /\ left_endpoint = Unbound /\ right_endpoint = Unbound /\ mid_point = Unbound
    /\ point_0 = Unbound /\ point_1 = Unbound /\ point_n = Unbound
    /\ i = 0 /\ trace = << >> /\ outcome = NoOutcome

Init ==
    /\ IsCall(call)
    /\ run = "first"
    /\ prev = NoPrev
    /\ Entered

\* ------------------------------------------------------------------ bisect
\* right_endpoint < left_endpoint: a test that lets an empty interval through.
bisect_malformed_strict(l, r) == Less(r, l)

\* if right_endpoint <= left_endpoint
bisect_malformed(l, r) == LessEq(r, l)

\* if f(left_endpoint) * f(right_endpoint) >= 0
bisect_no_sign_change(g, l, r) == LessEq(Zero, Mul(Apply(g, l), Apply(g, r)))

\* A midpoint taken from the wrong end: right + (right - left) / 2.
bisect_mid_point_beyond(l, r) == Add(r, Div(Sub(r, l), Two))

\* mid_point = left_endpoint + (right_endpoint - left_endpoint) / 2
bisect_mid_point(l, r) == Add(l, Div(Sub(r, l), Two))

\* A stopping test on the full width instead of the half width.
bisect_stop_full_width(fm, l, r, tol) == fm = Zero \/ Less(Sub(r, l), tol)

\* if f_at_mid_point == 0 or (right_endpoint - left_endpoint) / 2 < tolerance
bisect_stop(fm, l, r, tol) == fm = Zero \/ Less(Div(Sub(r, l), Two), tol)

\* The comparison reversed: the half without the sign change is kept.
bisect_moves_left_reversed(g, l, m) == Less(Mul(Apply(g, l), Apply(g, m)), Zero)

\* if f(left_endpoint) * f(mid_point) > 0: left_endpoint = mid_point
bisect_moves_left(g, l, m) == Less(Zero, Mul(Apply(g, l), Apply(g, m)))

OpenLocalsUnchanged == UNCHANGED << point_0, point_1, point_n >>

\* The two checks made before the loop.
bisect_enter ==
    /\ pc = "call" /\ call.alg = "bisect"
    /\ fn' = call.f
    /\ left_endpoint' = call.arg_0
    /\ right_endpoint' = call.arg_1
    /\ IF bisect_malformed(call.arg_0, call.arg_1)
       THEN outcome' = MalformedInterval /\ pc' = "done"
       ELSE IF bisect_no_sign_change(call.f, call.arg_0, call.arg_1)
       THEN outcome' = NoOppositeSigns /\ pc' = "done"
       ELSE outcome' = outcome /\ pc' = "loop"
    /\ OpenLocalsUnchanged
    /\ UNCHANGED << call, run, prev, mid_point, i, trace >>

\* One pass of the loop body.
bisect_iterate ==
    /\ pc = "loop" /\ call.alg = "bisect"
    /\ i < call.max_iteration
    /\ LET m == bisect_mid_point(left_endpoint, right_endpoint)
           fm == Apply(fn, m)
       IN  /\ mid_point' = m
           /\ trace' = Append(trace, m)
           /\ IF bisect_stop(fm, left_endpoint, right_endpoint, call.tolerance)
              THEN /\ outcome' = Return(m)
                   /\ pc' = "done"
                   /\ UNCHANGED << left_endpoint, right_endpoint, i >>
              ELSE /\ IF bisect_moves_left(fn, left_endpoint, m)
                      THEN left_endpoint' = m /\ right_endpoint' = right_endpoint
                      ELSE right_endpoint' = m /\ left_endpoint' = left_endpoint
                   /\ i' = i + 1
                   /\ UNCHANGED << outcome, pc >>
    /\ OpenLocalsUnchanged
    /\ UNCHANGED << call, run, prev, fn >>

\* The loop is over: raise ConvergenceFailure(... {mid_point} ... {f(mid_point)}).
bisect_exhausted ==
    /\ pc = "loop" /\ call.alg = "bisect"
    /\ i >= call.max_iteration
    /\ outcome' = RaiseAfterLoop(fn, mid_point)
    /\ pc' = "done"
    /\ OpenLocalsUnchanged
    /\ UNCHANGED << call, run, prev, fn, left_endpoint, right_endpoint,
                    mid_point, i, trace >>

BisectLocalsUnchanged == UNCHANGED << left_endpoint, right_endpoint, mid_point >>

\* ------------------------------------------------- false_position, secant
\* point_n = point_1 - (f(point_1) * (point_1 - point_0)) / (f(point_1) - f(point_0))
secant_denominator(g, p0, p1) == Sub(Apply(g, p1), Apply(g, p0))

secant_line_root(g, p0, p1) ==
    Sub(p1, Div(Mul(Apply(g, p1), Sub(p1, p0)), secant_denominator(g, p0, p1)))

\* x / d raises ZeroDivisionError exactly when d == 0.
divides_by_zero(d) == d = Zero

\* A test with the comparison reversed.
false_position_sign_changed_reversed(g, pn, p1) ==
    Less(Zero, Mul(Apply(g, pn), Apply(g, p1)))

\* if f(point_n) * f(point_1) < 0: point_0 = point_1
false_position_sign_changed(g, pn, p1) ==
    Less(Mul(Apply(g, pn), Apply(g, p1)), Zero)

\* A stopping test on the estimate itself instead of on the step.
converged_on_estimate(pn, p, tol) == Less(Abs(pn), tol)

\* if abs(point_n - point_1) < tolerance       (false_position, secant)
two_point_converged(pn, p, tol) == Less(Abs(Sub(pn, p)), tol)

\* if abs(point_n - point_0) < tolerance       (fixed_point)
fixed_point_converged(pn, p, tol) == Less(Abs(Sub(pn, p)), tol)

two_point_enter(a) ==
    /\ pc = "call" /\ call.alg = a
    /\ fn' = call.f
    /\ point_0' = call.arg_0
    /\ point_1' = call.arg_1
    /\ pc' = "loop"
    /\ BisectLocalsUnchanged
    /\ UNCHANGED << call, run, prev, point_n, i, trace, outcome >>

\* One pass of the loop body of false_position (keep_bracket) or secant.
two_point_iterate(a, keep_bracket) ==
    /\ pc = "loop" /\ call.alg = a
    /\ i < call.max_iteration
    /\ IF divides_by_zero(secant_denominator(fn, point_0, point_1))
       THEN /\ outcome' = ZeroDivision
            /\ pc' = "done"
            /\ UNCHANGED << point_0, point_1, point_n, i, trace >>
       ELSE LET pn == secant_line_root(fn, point_0, point_1)
            IN  /\ point_n' = pn
                /\ trace' = Append(trace, pn)
                /\ IF two_point_converged(pn, point_1, call.tolerance)
                   THEN /\ outcome' = Return(pn)
                        /\ pc' = "done"
                        /\ UNCHANGED << point_0, point_1, i >>
                   ELSE /\ point_0' =
                              IF keep_bracket
                                  => false_position_sign_changed(fn, pn, point_1)
                              THEN point_1 ELSE point_0
                        /\ point_1' = pn
                        /\ i' = i + 1
                        /\ UNCHANGED << outcome, pc >>
    /\ BisectLocalsUnchanged
    /\ UNCHANGED << call, run, prev, fn >>

\* The loop is over: raise ConvergenceFailure(... {point_n} ... {f(point_n)}).
open_exhausted(algs) ==
    /\ pc = "loop" /\ call.alg \in algs
    /\ i >= call.max_iteration
    /\ outcome' = RaiseAfterLoop(fn, point_n)
    /\ pc' = "done"
    /\ BisectLocalsUnchanged
    /\ UNCHANGED << call, run, prev, fn, point_0, point_1, point_n, i, trace >>

false_position_enter == two_point_enter("false_position")
false_position_iterate == two_point_iterate("false_position", TRUE)
false_position_exhausted == open_exhausted({"false_position"})

secant_enter == two_point_enter("secant")
secant_iterate == two_point_iterate("secant", FALSE)
secant_exhausted == open_exhausted({"secant"})

\* ------------------------------------------------------ fixed_point, newton
fixed_point_enter ==
    /\ pc = "call" /\ call.alg = "fixed_point"
    /\ fn' = call.f
    /\ point_0' = call.arg_0
    /\ pc' = "loop"
    /\ BisectLocalsUnchanged
    /\ UNCHANGED << call, run, prev, point_1, point_n, i, trace, outcome >>

\* return fixed_point(lambda p: p - f(p) / f_prime(p), point_0, max_iteration,
\* tolerance): the body that runs from here on is fixed_point's.
newton_enter ==
    /\ pc = "call" /\ call.alg = "newton"
    /\ fn' = [kind |-> "lambda", f |-> call.f, f_prime |-> call.f_prime]
    /\ point_0' = call.arg_0
    /\ pc' = "loop"
    /\ BisectLocalsUnchanged
    /\ UNCHANGED << call, run, prev, point_1, point_n, i, trace, outcome >>

\* One pass of the loop body of fixed_point.
fixed_point_iterate ==
    /\ pc = "loop" /\ call.alg \in {"fixed_point", "newton"}
    /\ i < call.max_iteration
    /\ IF Raises(fn, point_0)
       THEN /\ outcome' = ZeroDivision
            /\ pc' = "done"
            /\ UNCHANGED << point_0, point_n, i, trace >>
       ELSE LET pn == Apply(fn, point_0)
            IN  /\ point_n' = pn
                /\ trace' = Append(trace, pn)
                /\ IF fixed_point_converged(pn, point_0, call.tolerance)
                   THEN /\ outcome' = Return(pn)
                        /\ pc' = "done"
                        /\ UNCHANGED << point_0, i >>
                   ELSE /\ point_0' = pn
                        /\ i' = i + 1
                        /\ UNCHANGED << outcome, pc >>
    /\ BisectLocalsUnchanged
    /\ UNCHANGED << call, run, prev, fn, point_1 >>

fixed_point_exhausted == open_exhausted({"fixed_point", "newton"})

\* ------------------------------------------------- the caller's second call
\* The estimate before the returned one: the other operand of the stopping test.
BeforeLast == IF call.alg \in {"fixed_point", "newton"} THEN point_0 ELSE point_1

Summary ==
    [alg |-> call.alg, outcome |-> outcome, trace |-> trace, i |-> i,
     step |-> IF outcome.kind = "return" /\ call.alg # "bisect"
              THEN Abs(Sub(point_n, BeforeLast)) ELSE Unbound]

SecondCall(kind, c) ==
    /\ pc = "done" /\ run = "first"
    /\ run' = kind
    /\ prev' = Summary
    /\ call' = c
    /\ pc' = "call"
    /\ fn' = NoFn
    /\ left_endpoint' = Unbound /\ right_endpoint' = Unbound /\ mid_point' = Unbound
    /\ point_0' = Unbound /\ point_1' = Unbound /\ point_n' = Unbound
    /\ i' = 0 /\ trace' = << >> /\ outcome' = NoOutcome

\* The same function again, seeded with the value it returned.
call_reseeded ==
    /\ outcome.kind = "return"
    /\ call.alg \in {"fixed_point", "newton", "false_position", "secant"}
    /\ SecondCall("reseed",
          IF call.alg \in {"fixed_point", "newton"}
          THEN [call EXCEPT !.arg_0 = outcome.value]
          ELSE [call EXCEPT !.arg_0 = point_1, !.arg_1 = outcome.value])

\* After newton(f, f_prime, ...): fixed_point(g, ...) on the same arguments,
\* g the map p - f(p) / f'(p).
call_fixed_point_of_map ==
    /\ call.alg = "newton"
    /\ SecondCall("fixed_point_of_map",
          [call EXCEPT !.alg = "fixed_point",
                       !.f = [kind |-> "map", f |-> call.f, f_prime |-> call.f_prime],
                       !.f_prime = NoFn])

\* After false_position(f, p0, p1, ...): secant on the same arguments.
call_secant_same_seeds ==
    /\ call.alg = "false_position"
    /\ SecondCall("secant_same_seeds", [call EXCEPT !.alg = "secant"])

Next ==
    \/ bisect_enter
    \/ bisect_iterate
    \/ bisect_exhausted
    \/ false_position_enter
    \/ false_position_iterate
    \/ false_position_exhausted
    \/ secant_enter
    \/ secant_iterate
    \/ secant_exhausted
    \/ fixed_point_enter
    \/ newton_enter
    \/ fixed_point_iterate
    \/ fixed_point_exhausted
    \/ call_reseeded
    \/ call_fixed_point_of_map
    \/ call_secant_same_seeds

Spec == Init /\ [][Next]_vars

\* ================================================================== claims
Sign(x) == IF x[1] > 0 THEN 1 ELSE IF x[1] < 0 THEN -1 ELSE 0

RECURSIVE Pow2(_)
Pow2(k) == IF k = 0 THEN 1 ELSE 2 * Pow2(k - 1)

IsPrefix(s, t) == Len(s) <= Len(t) /\ \A j \in 1 .. Len(s) : s[j] = t[j]

\* bisect got past its two checks.
BisectAccepted ==
    /\ call.alg = "bisect"
    /\ pc # "call"
    /\ outcome.kind # "ValueError"

OppositeSigns(g, x, y) == Sign(Apply(g, x)) * Sign(Apply(g, y)) = -1

\* C1: in bisect, once the input is accepted, f(left_endpoint) and
\* f(right_endpoint) are both non-zero and of opposite signs at the start of
\* every loop iteration and after every update of either endpoint.
C1_BracketKept ==
    BisectAccepted => OppositeSigns(call.f, left_endpoint, right_endpoint)

\* Both endpoints have been moved.
C1_Witness ==
    /\ BisectAccepted /\ pc = "loop" /\ i >= 2
    /\ left_endpoint # call.arg_0
    /\ right_endpoint # call.arg_1

\* C2: a value x returned by bisect(f, a, b) satisfies a <= x <= b and is the
\* midpoint of a sub-interval [left, right] of [a, b] with either f(x) = 0 or
\* a half-width below the tolerance and opposite signs of f at left and right.
C2_ReturnedValue ==
    (call.alg = "bisect" /\ outcome.kind = "return") =>
        LET x == outcome.value
            half == Div(Sub(right_endpoint, left_endpoint), Two)
        IN  /\ LessEq(call.arg_0, x) /\ LessEq(x, call.arg_1)
            /\ LessEq(call.arg_0, left_endpoint)
            /\ Less(left_endpoint, right_endpoint)
            /\ LessEq(right_endpoint, call.arg_1)
            /\ Sub(x, left_endpoint) = half
            /\ Sub(right_endpoint, x) = half
            /\ \/ Apply(call.f, x) = Zero
               \/ /\ Less(half, call.tolerance)
                  /\ OppositeSigns(call.f, left_endpoint, right_endpoint)

\* Returned on the tolerance test, after the bracket has been narrowed twice.
C2_Witness ==
    /\ call.alg = "bisect" /\ outcome.kind = "return"
    /\ i >= 2
    /\ Apply(call.f, outcome.value) # Zero

NothingIterated ==
    /\ mid_point = Unbound /\ trace = << >> /\ i = 0
    /\ outcome.value = Unbound

\* C3: bisect checks its arguments before iterating: right <= left fails as a
\* malformed interval, otherwise f(left) * f(right) >= 0 (an endpoint that is
\* an exact root included) fails for want of a sign change; the two failures
\* differ, neither returns a value, neither computes a midpoint, and the loop
\* is entered only past both checks.
C3_ChecksFirst ==
    call.alg = "bisect" =>
        LET a == call.arg_0
            b == call.arg_1
            product == Mul(Apply(call.f, a), Apply(call.f, b))
        IN  /\ (pc = "done" /\ LessEq(b, a)) =>
                 /\ outcome.kind = "ValueError"
                 /\ outcome.msg = "Received malformed interval"
                 /\ NothingIterated
            /\ (pc = "done" /\ Less(a, b) /\ LessEq(Zero, product)) =>
                 /\ outcome.kind = "ValueError"
                 /\ outcome.msg = "Expected f to have have opposite signs at endpoints."
                 /\ NothingIterated
            /\ pc = "loop" => Less(a, b) /\ Less(product, Zero)

\* An endpoint that is an exact root of f is refused.
C3_Witness ==
    /\ call.alg = "bisect" /\ pc = "done"
    /\ Less(call.arg_0, call.arg_1)
    /\ Apply(call.f, call.arg_0) = Zero
    /\ Apply(call.f, call.arg_1) # Zero
    /\ outcome.kind = "ValueError"

\* C4: a call whose stopping test fails in every one of its max_iteration
\* iterations, with no zero denominator and no rejected argument, ends in
\* ConvergenceFailure and in no other error, and returns nothing.
C4_BudgetExhausted ==
    ( /\ pc = "done"
      /\ i = call.max_iteration
      /\ outcome.kind \notin {"return", "ZeroDivisionError", "ValueError"} )
        => /\ outcome.kind = "ConvergenceFailure"
           /\ outcome.value # Unbound

\* The first step a re-seeded call takes, |point_n - seed|, and whether
\* computing it divides by zero.
FirstStepRaises(c) ==
    IF c.alg = "fixed_point" THEN Raises(c.f, c.arg_0)
    ELSE IF c.alg = "newton" THEN Apply(c.f_prime, c.arg_0) = Zero
    ELSE Apply(c.f, c.arg_1) = Apply(c.f, c.arg_0)

FirstStep(c) ==
    IF c.alg = "fixed_point" THEN Abs(Sub(Apply(c.f, c.arg_0), c.arg_0))
    ELSE IF c.alg = "newton"
    THEN Abs(Div(Apply(c.f, c.arg_0), Apply(c.f_prime, c.arg_0)))
    ELSE Abs(Div(Mul(Apply(c.f, c.arg_1), Sub(c.arg_1, c.arg_0)),
                 Sub(Apply(c.f, c.arg_1), Apply(c.f, c.arg_0))))

ConvergedAtOnce == outcome.kind = "return" /\ i = 0 /\ Len(trace) = 1

\* C5 as stated: a call re-run from the value it converged to (fixed_point,
\* newton: as point_0; secant, false_position: as point_1 after the previous
\* estimate) meets its stopping test in the first iteration.
C5_ReseedConvergesAtOnce ==
    (run = "reseed" /\ pc = "done") => ConvergedAtOnce

\* C5 amended: the re-run meets its stopping test in the first iteration
\* when its first step divides by no zero and is no longer than the last
\* step of the call that converged.
C5_ReseedConvergesWhenStepNoLonger ==
    ( /\ run = "reseed" /\ pc = "done"
      /\ ~FirstStepRaises(call)
      /\ LessEq(FirstStep(call), prev.step) )
        => ConvergedAtOnce

\* A re-run that still moves, by no more than the converged call's last step.
C5_Witness ==
    /\ run = "reseed" /\ pc = "done"
    /\ ~FirstStepRaises(call)
    /\ Less(Zero, FirstStep(call))
    /\ LessEq(FirstStep(call), prev.step)
    /\ ConvergedAtOnce

\* The next step divides by zero: an iteration of false_position or secant
\* with f(point_1) = f(point_0), an iteration of newton at a point_0 with
\* f_prime(point_0) = 0, or the end of newton's budget at an estimate with
\* f_prime(point_n) = 0 (the failure message evaluates the lambda there).
ZeroDenominatorNext ==
    /\ pc = "loop"
    /\ \/ /\ call.alg \in {"false_position", "secant"}
          /\ i < call.max_iteration
          /\ Apply(call.f, point_1) = Apply(call.f, point_0)
       \/ /\ call.alg = "newton"
          /\ i < call.max_iteration
          /\ Apply(call.f_prime, point_0) = Zero
       \/ /\ call.alg = "newton"
          /\ i >= call.max_iteration
          /\ point_n # Unbound
          /\ Apply(call.f_prime, point_n) = Zero

\* C6: in false_position and secant a division by f(point_1) - f(point_0) = 0,
\* and in newton a division by f_prime(p) = 0, ends the call at that step
\* with a ZeroDivisionError: no further estimate is computed, no value is
\* returned, and the error is not a ConvergenceFailure.
C6_ZeroDenominatorFails ==
    [][ZeroDenominatorNext =>
          /\ pc' = "done"
          /\ outcome'.kind = "ZeroDivisionError"
          /\ outcome'.kind # "ConvergenceFailure"
          /\ outcome'.value = Unbound
          /\ trace' = trace /\ i' = i]_vars

\* The zero denominator arises after an iteration that did not.
C6_Witness ==
    /\ call.alg \in {"secant", "newton"}
    /\ pc = "done" /\ i >= 1
    /\ outcome.kind = "ZeroDivisionError"

\* C7: newton(f, f_prime, ...) and fixed_point(g, ...) with g(p) = p -
\* f(p)/f_prime(p), on the same point_0, max_iteration and tolerance, visit the
\* same estimates in the same order, stop in the same iteration and end in
\* the same outcome.
C7_NewtonIsFixedPointOfMap ==
    run = "fixed_point_of_map" =>
        /\ IsPrefix(trace, prev.trace)
        /\ pc = "done" =>
             /\ trace = prev.trace
             /\ i = prev.i
             /\ outcome = prev.outcome

\* Both returned after two iterations that moved.
C7_Witness ==
    /\ run = "fixed_point_of_map" /\ pc = "done"
    /\ outcome.kind = "return" /\ i >= 1
    /\ outcome.value # call.arg_0

\* C8: a ConvergenceFailure carries the last estimate computed and the value
\* there of the function being solved (for newton, f).
C8_FailureCarriesFunctionValue ==
    outcome.kind = "ConvergenceFailure" =>
        /\ trace # << >>
        /\ outcome.value = trace[Len(trace)]
        /\ ~Raises(call.f, outcome.value)
        /\ outcome.f_value = Apply(call.f, outcome.value)

SeedsBracket == Less(Mul(Apply(call.f, call.arg_0), Apply(call.f, call.arg_1)), Zero)

\* C9: false_position seeded with f(point_0) * f(point_1) < 0 keeps, after
\* every update, f(point_0) * f(point_1) < 0 or f(point_1) = 0.
C9_FalsePositionBrackets ==
    (call.alg = "false_position" /\ pc # "call" /\ SeedsBracket) =>
        \/ Less(Mul(Apply(call.f, point_0), Apply(call.f, point_1)), Zero)
        \/ Apply(call.f, point_1) = Zero

\* secant, on seeds on which false_position has updated its pair, holds a
\* pair with f of one strict sign at both points.
C9_Witness ==
    /\ run = "secant_same_seeds" /\ prev.i >= 1
    /\ SeedsBracket
    /\ pc = "loop" /\ i >= 1
    /\ Less(Zero, Mul(Apply(call.f, point_0), Apply(call.f, point_1)))

\* C10: in bisect the bracket is (b - a) / 2^k wide at the start of iteration
\* k, no earlier iteration had a half-width below the tolerance, and with
\* max_iteration >= 1 and (b - a) / 2^max_iteration < tolerance the call
\* returns a value.
C10_WidthHalves ==
    BisectAccepted =>
        LET width == Sub(call.arg_1, call.arg_0)
        IN  /\ Mul(Sub(right_endpoint, left_endpoint), << Pow2(i), 1 >>) = width
            /\ \A k \in 0 .. i - 1 :
                 ~Less(Div(width, << Pow2(k + 1), 1 >>), call.tolerance)
            /\ ( /\ pc = "done"
                 /\ call.max_iteration >= 1
                 /\ Less(Div(width, << Pow2(call.max_iteration), 1 >>),
                         call.tolerance) )
                 => outcome.kind = "return"

\* Returned on the tolerance test in the last iteration of the budget.
C10_Witness ==
    /\ BisectAccepted /\ outcome.kind = "return"
    /\ call.max_iteration >= 3
    /\ i = call.max_iteration - 1
    /\ Apply(call.f, outcome.value) # Zero
====
